---- MODULE Spec2Model ----
(***************************************************************************)
(* Model of the GAIC PDF search server (server.js, kept here as            *)
(* src/unnamed/part_001): the Completion Relay POST /api/chat-completion   *)
(* and the Query Builder of POST /api/search, with GET /api/facets, the     *)
(* telemetry endpoints, the TelemetryService of src/telemetry.js and the   *)
(* search page's client, KnowledgeSearch of src/public/app.js.             *)
(*                                                                         *)
(* Text is modelled as sequences of one-character strings.  A few symbols  *)
(* stand for a fixed run of characters of the real text:                   *)
(*   "d"  the characters  data:            " "  one blank                   *)
(*   "{"  {"choices":[{"delta":{"content":"     (opening of a delta event)  *)
(*   "}"  "}}]}                                 (its closing)               *)
(*   "o"  a complete JSON object that carries no delta content             *)
(*   "X"  [DONE]                            "N"  the newline character      *)
(*   "a" "b"  ordinary one-byte characters                                 *)
(*   "L" "C"  lead and continuation byte of one two-byte UTF-8 character,  *)
(*            which decodes to "E"; "?" is U+FFFD                           *)
(* In the query text of /api/search:                                       *)
(*   "Q"  the double quote   "B"  the backslash   "N"  the newline          *)
(*   "n"  the letter n       "$" "&" "T" "a"  themselves                     *)
(*   "P"  the placeholder {{query}}                                         *)
(*   "{"  the template's JSON text up to the query-text field's value      *)
(*   "}"  the template's JSON text after it                                 *)
(***************************************************************************)
EXTENDS Integers, Sequences, FiniteSets, TLC

\* ------------------------------------------------------------------ bounds
\* Most lines (newline-terminated) of an upstream event stream.
MaxLines == 2
\* Most characters of the query text of a search request.
MaxQueryLen == 3
\* Most values listed for one filter field of a search request.
MaxFilterValues == 2
\* Most product tokens of a User-Agent header.
MaxUaTokens == 2
\* Most buckets the backend returns for the creator-tool facet (of the 5 asked).
MaxBuckets == 3
\* Largest document count of one facet bucket.
MaxCount == 2
\* Most track calls made on the TelemetryService in one run of it.
MaxEvents == 2
\* Most search requests served one after the other.
MaxRequests == 2
\* Most searches the browser client issues.
MaxSearches == 2
\* Most chunks of one answer stream the browser client reads.
MaxChunks == 2

VARIABLES
    messages,      \* req.body.messages of the chat request: its shape
    stream,        \* the bytes the inference backend sends, in order
    pc,            \* position of the chat-completion handler
    pos,           \* number of upstream bytes handed out by reader.read()
    buffer,        \* let buffer: the pending partial line
    lineNo,        \* number of complete lines the for-loop has gone through
    body,          \* res.write calls so far: <<[line, text], ...>>
    headersSent,   \* res.headersSent
    status,        \* res.statusCode
    jsonBody,      \* the JSON body sent with res.json, "none" if none
    endCount,      \* how many times the response was finished
    fetchCalls,    \* fetch(llmUrl) calls made for this request
    sawDone,       \* a [DONE] line has been gone through
    outcome,       \* how the handler left: none, rejected (400), handshake (non-ok
                   \* status), fetchReject, eof, readfail (reader.read() rejected),
                   \* threw (an exception left the for-loop)
    query,         \* req.body.query of the search request (<<>>: missing or "")
    sPc,           \* position of the /api/search handler
    searchQueryString, \* const searchQueryString: the template after the replace
    searchQuery,   \* const searchQuery: [ok, text], the parsed query and its text field
    sStatus,       \* status of the search response, 0 while none is sent
    sBody,         \* body of the search response, "none" while none is sent
    searchCalls,   \* client.search calls made for this request
    tracked,       \* telemetry.trackQuery calls made, with the data passed:
                   \* <<[error, result_count (-1: none), error_message], ...>>
    filters,       \* req.body.filters: "absent", or a record of the three fields
    size,          \* req.body.size: "absent" or a JSON value
    composedQuery, \* the body handed to client.search
    submittedSize, \* the size handed to client.search ("none" before the call)
    sError,        \* error.message caught by the search handler, "none" if none
    sTotal,        \* response.hits.total.value of the backend's answer, -1 if none
    sSent,         \* responses sent for the search request
    sMessage,      \* message field of the search response, "none" if none
    enabled,       \* TelemetryService.enabled
    sinkWrites,    \* client.index calls on the usage index: <<[event, state], ...>>
    warnings,      \* times the index-not-found guidance was logged
    userAgent,     \* req.headers['user-agent']: "absent" or its product tokens
    tKind,         \* the telemetry endpoint called: access or click
    tPc,           \* position of the telemetry endpoint's handler
    tStatus,       \* status of its response, 0 while none is sent
    tBody,         \* body of its response, "none" while none is sent
    buckets,       \* creator_tool_facet.buckets of the backend's answer
    fPc,           \* position of the /api/facets handler
    fStatus,       \* status of its response, 0 while none is sent
    fFacets,       \* facets.creator_tool of its response
    clientGone,    \* the caller of the chat request has closed its connection
    readsAfterClose, \* reader.read() calls issued after the caller had gone
    writesAfterClose, \* res.write calls made after the caller had gone
    trackCalls,    \* trackAccess/trackQuery/trackClick calls: <<[kind, enabled], ...>>
    mainQuery,     \* const mainQuery: the template, as JSON.stringify gives it
    warmups,       \* warmupElserModel calls made
    requests,      \* search requests that have arrived
    cIssued,       \* browser: performSearch calls that sent a request
    cPending,      \* browser: searches whose /api/search response is awaited
    cResults,      \* browser: the search whose results (or error) are shown, 0 none
    cStreams,      \* browser: answer streams being read: {[search, chunks], ...}
    cAnswer        \* browser: the answer section: [search, chunks, visible], the
                   \* search whose answer text is in it (0 none) and how much of it

chatVars == <<messages, stream, pc, pos, buffer, lineNo, body, headersSent,
              status, jsonBody, endCount, fetchCalls, sawDone, outcome,
              clientGone, readsAfterClose, writesAfterClose>>
searchVars == <<query, sPc, searchQueryString, searchQuery, sStatus, sBody,
                searchCalls, tracked, filters, size, composedQuery, submittedSize,
                sError, sTotal, sSent, sMessage>>
sinkVars == <<enabled, sinkWrites, warnings, trackCalls>>
telVars == <<userAgent, tKind, tPc, tStatus, tBody>>
facetVars == <<buckets, fPc, fStatus, fFacets>>
configVars == <<mainQuery, warmups, requests>>
clientVars == <<cIssued, cPending, cResults, cStreams, cAnswer>>
vars == <<chatVars, searchVars, sinkVars, telVars, facetVars, configVars, clientVars>>

\* ------------------------------------------------------- sequence helpers
Last(s) == s[Len(s)]
Front(s) == SubSeq(s, 1, Len(s) - 1)

RECURSIVE Flatten(_)
Flatten(ss) == IF ss = <<>> THEN <<>> ELSE Head(ss) \o Flatten(Tail(ss))

Texts(b) == [i \in 1..Len(b) |-> b[i].text]

\* ------------------------------------------------- the relay's pure steps
\* decoder.decode(value): UTF-8 decoding of ONE read, with no {stream: true}:
\* every call starts afresh, so a lead byte at the end of a read and a
\* continuation byte at the start of the next each become U+FFFD.
RECURSIVE DecodeFrom(_, _)
DecodeFrom(bytes, i) ==
    IF i > Len(bytes) THEN <<>>
    ELSE IF bytes[i] = "L"
         THEN IF i < Len(bytes) /\ bytes[i + 1] = "C"
              THEN <<"E">> \o DecodeFrom(bytes, i + 2)
              ELSE <<"?">> \o DecodeFrom(bytes, i + 1)
    ELSE IF bytes[i] = "C" THEN <<"?">> \o DecodeFrom(bytes, i + 1)
    ELSE <<bytes[i]>> \o DecodeFrom(bytes, i + 1)

Decode(bytes) == DecodeFrom(bytes, 1)

\* buffer.split('\n')
RECURSIVE Split(_)
Split(s) ==
    IF \A i \in 1..Len(s) : s[i] # "N" THEN <<s>>
    ELSE LET i == CHOOSE k \in 1..Len(s) :
                      s[k] = "N" /\ \A j \in 1..(k - 1) : s[j] # "N"
         IN  <<SubSeq(s, 1, i - 1)>> \o Split(SubSeq(s, i + 1, Len(s)))

\* String.prototype.trim
RECURSIVE TrimLeft(_)
TrimLeft(s) == IF s # <<>> /\ Head(s) = " " THEN TrimLeft(Tail(s)) ELSE s
RECURSIVE TrimRight(_)
TrimRight(s) == IF s # <<>> /\ Last(s) = " " THEN TrimRight(Front(s)) ELSE s
Trim(s) == TrimRight(TrimLeft(s))

\* line.startsWith('data: ')
StartsWithData(line) == Len(line) >= 2 /\ line[1] = "d" /\ line[2] = " "

\* line.substring(6)
Payload(line) == SubSeq(line, 3, Len(line))

\* Characters that may stand unescaped inside a JSON string.
StrChar == {"a", "b", "E", "?", "d", " ", "X"}

\* JSON.parse(jsonStr) followed by the test of parsed.choices[0].delta.content:
\* ok is FALSE when JSON.parse throws.
ParseJSON(jsonStr) ==
    LET t == Trim(jsonStr) IN
    IF t = <<"o">>
    THEN [ok |-> TRUE, hasContent |-> FALSE, content |-> <<>>]
    ELSE IF /\ Len(t) >= 2
            /\ t[1] = "{"
            /\ t[Len(t)] = "}"
            /\ \A i \in 2..(Len(t) - 1) : t[i] \in StrChar
         THEN [ok |-> TRUE, hasContent |-> TRUE, content |-> SubSeq(t, 2, Len(t) - 1)]
         ELSE [ok |-> FALSE, hasContent |-> FALSE, content |-> <<>>]

\* What the body of the for-loop does with one line.
LineKind(line) ==
    IF Trim(line) = <<>> \/ ~StartsWithData(line) THEN "skip"
    ELSE IF Trim(Payload(line)) = <<"X">> THEN "done"
    ELSE LET p == ParseJSON(Payload(line)) IN
         IF ~p.ok THEN "parseError"
         ELSE IF p.hasContent /\ p.content # <<>> THEN "write"
         ELSE "noContent"

LineContent(line) == ParseJSON(Payload(line)).content

\* for (const line of lines): the order in which the lines are gone through.
LineOrderReversed(k) == [i \in 1..k |-> k + 1 - i]
LineOrder(k) == [i \in 1..k |-> i]

\* catch (parseError) { ...; continue; }
OnParseErrorThrow == "throw"
OnParseError == "continue"

\* if (jsonStr.trim() === '[DONE]') { ...; continue; }
OnDoneMarkerBreak == "break"
OnDoneMarker == "continue"

\* The for-loop over the complete lines of one read. Returns the res.write
\* calls it makes, whether it left through an exception, whether it met
\* [DONE], and whether it stopped the stream.
RECURSIVE RunLines(_, _, _, _)
RunLines(lines, order, k, base) ==
    IF k > Len(order)
    THEN [writes |-> <<>>, threw |-> FALSE, done |-> FALSE, stop |-> FALSE]
    ELSE LET line == lines[order[k]]
             kind == LineKind(line)
             rest == RunLines(lines, order, k + 1, base)
         IN  CASE kind = "write" ->
                    [rest EXCEPT !.writes =
                        <<[line |-> base + order[k], text |-> LineContent(line)]>> \o @]
               [] kind = "done" ->
                    IF OnDoneMarker = "continue"
                    THEN [rest EXCEPT !.done = TRUE]
                    ELSE [writes |-> <<>>, threw |-> FALSE, done |-> TRUE, stop |-> TRUE]
               [] kind = "parseError" ->
                    IF OnParseError = "continue"
                    THEN rest
                    ELSE [writes |-> <<>>, threw |-> TRUE, done |-> FALSE, stop |-> FALSE]
               [] OTHER -> rest

ProcessLines(lines, base) == RunLines(lines, LineOrder(Len(lines)), 1, base)

\* catch (error) { if (!res.headersSent) res.status(500).json(..) else res.end() }
CatchAlwaysJson(hs) == "json500"
CatchAlwaysEnd(hs) == "end"
CatchHandler(hs) == IF ~hs THEN "json500" ELSE "end"

\* ------------------------------------------------------------ the inputs
ValidA == <<"d", " ", "{", "a", "}">>
ValidB == <<"d", " ", "{", "b", "}">>
ValidWide == <<"d", " ", "{", "L", "C", "}">>
DoneLine == <<"d", " ", "X">>
Malformed == <<"d", " ", "{", "a">>
NoContent == <<"d", " ", "o">>
EmptyContent == <<"d", " ", "{", "}">>
NoSpace == <<"d", "{", "a", "}">>
Blank == <<>>

LineCatalogue ==
    {ValidA, ValidWide, DoneLine, Malformed, NoContent, EmptyContent, NoSpace,
     Blank}

\* An unterminated last fragment, or none.
TailCatalogue == {<<>>, ValidB}

RECURSIVE JoinLines(_)
JoinLines(ls) == IF ls = <<>> THEN <<>> ELSE Head(ls) \o <<"N">> \o JoinLines(Tail(ls))

StreamSet ==
    { JoinLines(ls) \o t :
        ls \in UNION { [1..k -> LineCatalogue] : k \in 0..MaxLines },
        t \in TailCatalogue }

MessageShapes == {"missing", "notArray", "empty", "nonEmpty"}

\* What the backend may send for a given request: nothing is read for a
\* request that is turned away; an empty conversation is answered by an empty
\* stream or by one event.
StreamsFor(m) ==
    CASE m \in {"missing", "notArray"} -> {<<>>}
      [] m = "empty" -> {<<>>, JoinLines(<<ValidA>>)}
      [] OTHER -> StreamSet

\* --------------------------------------------------------- Query Builder
\* JSON.stringify(query).slice(1, -1): the JSON string escapes of the text.
RECURSIVE JsonEscape(_)
JsonEscape(q) ==
    IF q = <<>> THEN <<>>
    ELSE (CASE Head(q) = "Q" -> <<"B", "Q">>
            [] Head(q) = "B" -> <<"B", "B">>
            [] Head(q) = "N" -> <<"B", "n">>
            [] OTHER -> <<Head(q)>>) \o JsonEscape(Tail(q))

\* The replacement-string patterns of String.prototype.replace with a string
\* pattern: $$ is $, $& the matched text, $ with a backtick the text before the match; a $
\* before anything else stands for itself.
RECURSIVE ExpandReplacement(_, _, _)
ExpandReplacement(rep, matched, before) ==
    IF rep = <<>> THEN <<>>
    ELSE IF Head(rep) = "$" /\ Len(rep) >= 2 /\ rep[2] \in {"$", "&", "T"}
         THEN (CASE rep[2] = "$" -> <<"$">>
                 [] rep[2] = "&" -> matched
                 [] rep[2] = "T" -> before)
              \o ExpandReplacement(SubSeq(rep, 3, Len(rep)), matched, before)
         ELSE <<Head(rep)>> \o ExpandReplacement(Tail(rep), matched, before)

\* queryTemplate.replace('{{query}}', escapedQuery): the first occurrence only.
Replace(text, rep) ==
    IF \A i \in 1..Len(text) : text[i] # "P" THEN text
    ELSE LET i == CHOOSE k \in 1..Len(text) :
                      text[k] = "P" /\ \A j \in 1..(k - 1) : text[j] # "P"
             before == SubSeq(text, 1, i - 1)
         IN  before \o ExpandReplacement(rep, <<"P">>, before)
                    \o SubSeq(text, i + 1, Len(text))

\* JSON.stringify(mainQuery): the template, with its one placeholder as the
\* value of the query-text field.
QueryTemplate == <<"{", "Q", "P", "Q", "}">>

\* JSON.parse of a string literal from its first character after the opening
\* quote: the text it denotes and the index after its closing quote.
RECURSIVE ScanString(_, _, _)
ScanString(t, i, acc) ==
    IF i > Len(t) THEN [ok |-> FALSE, text |-> <<>>, next |-> i]
    ELSE IF t[i] = "Q" THEN [ok |-> TRUE, text |-> acc, next |-> i + 1]
    ELSE IF t[i] = "B"
         THEN IF i + 1 > Len(t) THEN [ok |-> FALSE, text |-> <<>>, next |-> i]
              ELSE IF t[i + 1] = "Q" THEN ScanString(t, i + 2, Append(acc, "Q"))
              ELSE IF t[i + 1] = "B" THEN ScanString(t, i + 2, Append(acc, "B"))
              ELSE IF t[i + 1] = "n" THEN ScanString(t, i + 2, Append(acc, "N"))
              ELSE [ok |-> FALSE, text |-> <<>>, next |-> i]
    ELSE IF t[i] \in {"N", "{", "}"} THEN [ok |-> FALSE, text |-> <<>>, next |-> i]
    ELSE ScanString(t, i + 1, Append(acc, t[i]))

\* JSON.parse(searchQueryString): ok is FALSE when it throws; text is the
\* value of the query-text field.
ParseQuery(t) ==
    IF Len(t) < 2 \/ t[1] # "{" \/ t[2] # "Q"
    THEN [ok |-> FALSE, text |-> <<>>]
    ELSE LET r == ScanString(t, 3, <<>>) IN
         IF r.ok /\ SubSeq(t, r.next, Len(t)) = <<"}">>
         THEN [ok |-> TRUE, text |-> r.text]
         ELSE [ok |-> FALSE, text |-> <<>>]

QueryChar == {"a", "Q", "B", "N", "$", "&", "T"}
QuerySet == UNION { [1..k -> QueryChar] : k \in 0..MaxQueryLen }

NoQuery == [ok |-> FALSE, text |-> <<>>]

\* The queries sent together with filters and a size.
ShortQueries == {<<>>, <<"a">>}

\* ------------------------------------------------- filters and result size
\* req.body.filters is absent, null, or an object; each of its three fields
\* is absent or a list of values.
FilterField == {"author", "content_type", "creator_tool"}
FilterValues == <<"v1", "v2", "v3", "v4">>
NoField == [given |-> FALSE, values |-> <<>>]
FieldSet ==
    {NoField} \cup {[given |-> TRUE, values |-> SubSeq(FilterValues, 1, n)] :
                        n \in 0..MaxFilterValues}
NoFilters == [kind |-> "absent", author |-> NoField, content_type |-> NoField,
              creator_tool |-> NoField]
FilterSets ==
    {NoFilters, [NoFilters EXCEPT !.kind = "null"]}
      \cup [kind : {"object"}, author : FieldSet, content_type : FieldSet,
            creator_tool : FieldSet]

\* const { filters = {} } = req.body: the default replaces only an absent value.
FiltersOrDefault(f) == IF f.kind = "absent" THEN [f EXCEPT !.kind = "object"] ELSE f

\* Object.keys(filters).length > 0
HasKeys(f) == \E k \in FilterField : f[k].given

\* filters.author && filters.author.length > 0
FieldSupplied(field) == field.given /\ Len(field.values) > 0

\* The clause pushed for one field: { terms: { "attachment.<field>.keyword": values } }
Clause(k, field) == [field |-> k, terms |-> field.values]

FilterOrderNoTool == <<"author", "content_type">>
FilterOrder == <<"author", "content_type", "creator_tool">>

\* filterClauses as the three ifs fill it, in their order.
RECURSIVE ClausesFrom(_, _)
ClausesFrom(f, order) ==
    IF order = <<>> THEN <<>>
    ELSE (IF FieldSupplied(f[Head(order)])
          THEN <<Clause(Head(order), f[Head(order)])>> ELSE <<>>)
         \o ClausesFrom(f, Tail(order))

FilterClauses(f) == ClausesFrom(f, FilterOrder)

\* if (filterClauses.length > 0)
WrapAlways(clauses) == TRUE
WrapNeeded(clauses) == Len(clauses) > 0

\* The query body handed to the backend.  "template" is the parsed template
\* as it is; "bool" is the retriever rebuilt around { bool: { must, filter } }.
NoComposed == [shape |-> "none", semantic |-> <<>>, filter |-> <<>>]
Compose(parsed, f) ==
    LET given == FiltersOrDefault(f)
        clauses == FilterClauses(given)
    IN IF given.kind = "object" /\ HasKeys(given) /\ WrapNeeded(clauses)
       THEN [shape |-> "bool", semantic |-> parsed.text, filter |-> clauses]
       ELSE [shape |-> "template", semantic |-> parsed.text, filter |-> <<>>]

\* req.body.size: absent, null, a number (held in tenths), or a string.
DefaultSize == 10
NoSizeGiven == [kind |-> "absent", tenths |-> 0]
SizeSet ==
    {NoSizeGiven, [kind |-> "null", tenths |-> 0], [kind |-> "text", tenths |-> 0]}
      \cup [kind : {"number"}, tenths : {0, -30, 27, 50}]

\* const { size = 10 } = req.body
SizeOrDefault(sz) ==
    IF sz.kind = "absent" THEN [kind |-> "number", tenths |-> DefaultSize * 10] ELSE sz

\* parseInt(size): the integer the text of the value starts with, or NaN.
NoSize == [kind |-> "none", value |-> 0]
ParseInt(sz) ==
    IF sz.kind = "number"
    THEN [kind |-> "int",
          value |-> IF sz.tenths >= 0 THEN sz.tenths \div 10
                    ELSE -((-sz.tenths) \div 10)]
    ELSE [kind |-> "NaN", value |-> 0]

\* ------------------------------------------------------- TelemetryService
\* A User-Agent header is a run of product tokens.  Each token stands for a
\* piece of text that holds the markers below and none of the other patterns.
UaToken == {"Edg/", "Chrome/", "Safari/", "Firefox/", "Trident/", "OPR/",
            "Windows", "Mac OS", "Linux", "Android", "Mobile", "iPad", "iPhone",
            "curl"}
NoUserAgent == <<"absent">>
UnknownText == <<"unknown">>

RECURSIVE SeqsUpTo(_, _)
SeqsUpTo(S, n) ==
    IF n = 0 THEN {<<>>}
    ELSE LET shorter == SeqsUpTo(S, n - 1)
         IN shorter \cup {Append(t, c) : t \in shorter, c \in S}

UserAgents == {NoUserAgent} \cup SeqsUpTo(UaToken, MaxUaTokens)

\* ua.includes(marker), ua being the lower-cased text
Includes(ua, marker) ==
    \E i \in 1..Len(ua) :
        \/ ua[i] = marker
        \/ marker = "chrome" /\ ua[i] = "Chrome/"

\* /(tablet|ipad|playbook|silk)|(android(?!.*mobi))/i
TabletPattern(ua) ==
    \/ \E i \in 1..Len(ua) : ua[i] = "iPad"
    \/ \E i \in 1..Len(ua) :
          /\ ua[i] = "Android"
          /\ \A j \in (i + 1)..Len(ua) : ua[j] # "Mobile"

\* /Mobile|iP(hone|od)|Android|BlackBerry|IEMobile|Kindle|.../
MobilePattern(ua) ==
    \E i \in 1..Len(ua) : ua[i] \in {"Mobile", "iPhone", "Android"}

DeviceOf(ua) ==
    IF TabletPattern(ua) THEN "tablet"
    ELSE IF MobilePattern(ua) THEN "mobile"
    ELSE "desktop"

BrowserChromeFirst(ua) ==
    IF Includes(ua, "Chrome/") THEN "Chrome"
    ELSE IF Includes(ua, "Edg/") THEN "Edge"
    ELSE IF Includes(ua, "Safari/") /\ ~Includes(ua, "chrome") THEN "Safari"
    ELSE IF Includes(ua, "Firefox/") THEN "Firefox"
    ELSE IF Includes(ua, "Trident/") THEN "IE"
    ELSE IF Includes(ua, "OPR/") THEN "Opera"
    ELSE "unknown"
BrowserOf(ua) ==
    IF Includes(ua, "Edg/") THEN "Edge"
    ELSE IF Includes(ua, "Chrome/") THEN "Chrome"
    ELSE IF Includes(ua, "Safari/") /\ ~Includes(ua, "chrome") THEN "Safari"
    ELSE IF Includes(ua, "Firefox/") THEN "Firefox"
    ELSE IF Includes(ua, "Trident/") THEN "IE"
    ELSE IF Includes(ua, "OPR/") THEN "Opera"
    ELSE "unknown"

OsOf(ua) ==
    IF Includes(ua, "Windows") THEN "Windows"
    ELSE IF Includes(ua, "Mac OS") THEN "macOS"
    ELSE IF Includes(ua, "Linux") THEN "Linux"
    ELSE IF Includes(ua, "Android") THEN "Android"
    ELSE IF Includes(ua, "iPhone") \/ Includes(ua, "iPad") THEN "iOS"
    ELSE "unknown"

\* parseUserAgent: a falsy argument (none, or the empty text) is all unknown.
parseUserAgent(ua) ==
    IF ua = NoUserAgent \/ ua = <<>>
    THEN [device_type |-> "unknown", browser |-> "unknown", os |-> "unknown"]
    ELSE [device_type |-> DeviceOf(ua), browser |-> BrowserOf(ua), os |-> OsOf(ua)]

\* getCommonData: req.headers['user-agent'] || 'unknown' is what gets parsed.
getCommonData(header) ==
    LET ua == IF header = NoUserAgent \/ header = <<>> THEN UnknownText ELSE header
        parsed == parseUserAgent(ua)
    IN [user_agent |-> ua, device_type |-> parsed.device_type,
        browser |-> parsed.browser, os |-> parsed.os]

\* data.f || fallback, for a field the caller may have left out
Field(data, f, fallback) == IF f \in DOMAIN data THEN data[f] ELSE fallback

\* The event trackQuery builds.
QueryEventNoFlag(header, data) ==
    [event_type |-> "query", common |-> getCommonData(header),
     result_count |-> Field(data, "result_count", 0),
     error_occurred |-> FALSE]
QueryEvent(header, data) ==
    [event_type |-> "query", common |-> getCommonData(header),
     result_count |-> Field(data, "result_count", 0),
     error_occurred |-> Field(data, "error_occurred", FALSE)]

\* The event trackAccess or trackClick builds.
EndpointEvent(kind, header) ==
    [event_type |-> kind, common |-> getCommonData(header)]

\* How indexEvent settles, given how client.index settled: an index that
\* does not exist is logged and swallowed, any other failure is thrown on.
IndexEventOutcome(result) ==
    IF result = "ok" THEN "resolved"
    ELSE IF result = "indexMissing" THEN "resolved"
    ELSE "rejected"

\* How trackAccess, trackQuery and trackClick settle: their catch logs the
\* error and swallows it.
TrackOutcomeRethrows(indexOutcome) == indexOutcome
TrackOutcome(indexOutcome) == "resolved"

\* if (!this.enabled) return;
GuardIgnored(en) == TRUE
Guard(en) == en

\* indexEvent: one client.index call for the one event, at once.
IndexCallsTwice(event) ==
    <<[event |-> event, state |-> "pending"], [event |-> event, state |-> "pending"]>>
IndexCalls(event) == <<[event |-> event, state |-> "pending"]>>

\* The client.index calls a track call makes for the event it would build.
TrackWrites(en, event) == IF Guard(en) THEN IndexCalls(event) ELSE <<>>

\* Whether the search handler waits for trackQuery before it answers.
SearchAwaitsTrackTrue == TRUE
SearchAwaitsTrack == FALSE

\* ------------------------------------------------------------------ Init
\* No search request is in hand.
SearchFresh ==
    /\ searchQueryString = <<>>
    /\ searchQuery = NoQuery
    /\ sStatus = 0
    /\ sBody = "none"
    /\ searchCalls = 0
    /\ tracked = <<>>
    /\ composedQuery = NoComposed
    /\ submittedSize = NoSize
    /\ sError = "none"
    /\ sTotal = -1
    /\ sSent = 0
    /\ sMessage = "none"

SearchIdle ==
    /\ query = <<>>
    /\ filters = NoFilters
    /\ size = NoSizeGiven
    /\ sPc = "idle"
    /\ SearchFresh

\* The TelemetryService as server.js constructs it, with nothing written.
SinkIdle ==
    /\ enabled = TRUE
    /\ sinkWrites = <<>>
    /\ warnings = 0
    /\ trackCalls = <<>>

\* The template as loaded at startup; no warm-up made yet.
ConfigLoaded ==
    /\ mainQuery = QueryTemplate
    /\ warmups = 0
    /\ requests = 0

\* hideAnswer(): the answer section hidden and its content emptied.
NoAnswer == [search |-> 0, chunks |-> 0, visible |-> FALSE]

\* The browser client with no search made.
ClientIdle ==
    /\ cIssued = 0
    /\ cPending = {}
    /\ cResults = 0
    /\ cStreams = {}
    /\ cAnswer = NoAnswer

\* No telemetry endpoint is being served.
TelIdle ==
    /\ userAgent = NoUserAgent
    /\ tKind = "none"
    /\ tPc = "idle"
    /\ tStatus = 0
    /\ tBody = "none"

\* No facets request is in hand.
FacetIdle ==
    /\ buckets = <<>>
    /\ fPc = "idle"
    /\ fStatus = 0
    /\ fFacets = <<>>

\* No chat request is in hand.
ChatIdle ==
    /\ messages = "missing"
    /\ stream = <<>>
    /\ pc = "idle"
    /\ pos = 0
    /\ buffer = <<>>
    /\ lineNo = 0
    /\ body = <<>>
    /\ headersSent = FALSE
    /\ status = 200
    /\ jsonBody = "none"
    /\ endCount = 0
    /\ fetchCalls = 0
    /\ sawDone = FALSE
    /\ outcome = "none"
    /\ clientGone = FALSE
    /\ readsAfterClose = 0
    /\ writesAfterClose = 0

Init ==
    /\ messages \in MessageShapes
    /\ stream \in StreamsFor(messages)
    /\ pc = "start"
    /\ pos = 0
    /\ buffer = <<>>
    /\ lineNo = 0
    /\ body = <<>>
    /\ headersSent = FALSE
    /\ status = 200
    /\ jsonBody = "none"
    /\ endCount = 0
    /\ fetchCalls = 0
    /\ sawDone = FALSE
    /\ outcome = "none"
    /\ clientGone = FALSE
    /\ readsAfterClose = 0
    /\ writesAfterClose = 0
    /\ SearchIdle
    /\ SinkIdle
    /\ TelIdle
    /\ FacetIdle
    /\ ConfigLoaded
    /\ ClientIdle

\* A search request arrives.
InitSearch ==
    /\ ChatIdle
    /\ ConfigLoaded
    /\ ClientIdle
    /\ SinkIdle
    /\ TelIdle
    /\ FacetIdle
    /\ \/ /\ query \in QuerySet
          /\ filters = NoFilters
          /\ size = NoSizeGiven
       \/ /\ query \in ShortQueries
          /\ filters \in FilterSets
          /\ size \in SizeSet
    /\ sPc = "start"
    /\ SearchFresh

\* --------------------------------------------------------------- actions
\* The catch block of the handler, entered with the response as it stands.
Caught(why) ==
    /\ outcome' = why
    /\ pc' = "done"
    /\ endCount' = endCount + 1
    /\ IF CatchHandler(headersSent) = "json500"
       THEN /\ status' = 500
            /\ jsonBody' = "chatFailed"
            /\ headersSent' = TRUE
       ELSE UNCHANGED <<status, jsonBody, headersSent>>

\* res.setHeader(..) only records a header: nothing is sent and
\* res.headersSent stays false until the first res.write.
SetHeaderSendsTrue == TRUE
SetHeaderSends == FALSE

\* if (!messages || !Array.isArray(messages)) return res.status(400).json(..)
\* otherwise the headers are set and fetch(llmUrl) is issued.
Validate ==
    /\ pc = "start"
    /\ IF messages \in {"missing", "notArray"}
       THEN /\ status' = 400
            /\ jsonBody' = "messagesRequired"
            /\ headersSent' = TRUE
            /\ endCount' = endCount + 1
            /\ outcome' = "rejected"
            /\ pc' = "done"
            /\ UNCHANGED fetchCalls
       ELSE /\ headersSent' = SetHeaderSends
            /\ fetchCalls' = fetchCalls + 1
            /\ pc' = "fetching"
            /\ UNCHANGED <<status, jsonBody, endCount, outcome>>
    /\ UNCHANGED <<messages, stream, pos, buffer, lineNo, body, sawDone>>
    /\ UNCHANGED <<clientGone, readsAfterClose, writesAfterClose>>
    /\ UNCHANGED <<searchVars, sinkVars, telVars, facetVars, configVars, clientVars>>

\* await fetch(..) resolves with llmResponse.ok: the reader is taken.
FetchOk ==
    /\ pc = "fetching"
    /\ pc' = "reading"
    /\ buffer' = <<>>
    /\ UNCHANGED <<messages, stream, pos, lineNo, body, headersSent, status,
                   jsonBody, endCount, fetchCalls, sawDone, outcome>>
    /\ UNCHANGED <<clientGone, readsAfterClose, writesAfterClose>>
    /\ UNCHANGED <<searchVars, sinkVars, telVars, facetVars, configVars, clientVars>>

\* await fetch(..) resolves with a non-success status:
\* if (!llmResponse.ok) throw new Error(..), caught by the catch block.
FetchNotOk ==
    /\ pc = "fetching"
    /\ Caught("handshake")
    /\ UNCHANGED <<messages, stream, pos, buffer, lineNo, body, fetchCalls, sawDone>>
    /\ UNCHANGED <<clientGone, readsAfterClose, writesAfterClose>>
    /\ UNCHANGED <<searchVars, sinkVars, telVars, facetVars, configVars, clientVars>>

\* await fetch(..) rejects (no connection): the catch block.
FetchRejects ==
    /\ pc = "fetching"
    /\ Caught("fetchReject")
    /\ UNCHANGED <<messages, stream, pos, buffer, lineNo, body, fetchCalls, sawDone>>
    /\ UNCHANGED <<clientGone, readsAfterClose, writesAfterClose>>
    /\ UNCHANGED <<searchVars, sinkVars, telVars, facetVars, configVars, clientVars>>

\* One turn of the while-loop with done = false: reader.read() hands out the
\* next n bytes of the stream. An exception leaving the for-loop would reach
\* the catch block, a break out of the while-loop would reach res.end(); the
\* loop as written does neither (OnParseError, OnDoneMarker).
ReadChunk ==
    /\ pc = "reading"
    /\ \E n \in 1..(Len(stream) - pos) :
        LET chunk == Decode(SubSeq(stream, pos + 1, pos + n))
            lines == Split(buffer \o chunk)
            run   == ProcessLines(Front(lines), lineNo)
        IN  /\ pos' = pos + n
            /\ buffer' = Last(lines)
            /\ lineNo' = lineNo + Len(lines) - 1
            /\ body' = body \o run.writes
            /\ sawDone' = (sawDone \/ run.done)
            /\ IF run.threw
               THEN /\ outcome' = "threw"
                    /\ pc' = "done"
                    /\ endCount' = endCount + 1
                    /\ IF CatchHandler(headersSent \/ run.writes # <<>>) = "json500"
                       THEN /\ status' = 500
                            /\ jsonBody' = "chatFailed"
                            /\ headersSent' = TRUE
                       ELSE /\ headersSent' = TRUE
                            /\ UNCHANGED <<status, jsonBody>>
               ELSE IF run.stop
               THEN /\ outcome' = "eof"
                    /\ pc' = "done"
                    /\ endCount' = endCount + 1
                    /\ headersSent' = TRUE
                    /\ UNCHANGED <<status, jsonBody>>
               ELSE /\ headersSent' = (headersSent \/ run.writes # <<>>)
                    /\ UNCHANGED <<pc, outcome, endCount, status, jsonBody>>
            /\ writesAfterClose' = IF clientGone
                                   THEN writesAfterClose + Len(run.writes)
                                   ELSE writesAfterClose
            /\ readsAfterClose' = IF clientGone /\ ~run.threw /\ ~run.stop
                                  THEN readsAfterClose + 1
                                  ELSE readsAfterClose
    /\ UNCHANGED clientGone
    /\ UNCHANGED <<messages, stream, fetchCalls>>
    /\ UNCHANGED <<searchVars, sinkVars, telVars, facetVars, configVars, clientVars>>

\* reader.read() reports done: break, then res.end().
ReadDone ==
    /\ pc = "reading"
    /\ pos = Len(stream)
    /\ pc' = "done"
    /\ outcome' = "eof"
    /\ endCount' = endCount + 1
    /\ headersSent' = TRUE
    /\ UNCHANGED <<messages, stream, pos, buffer, lineNo, body, status, jsonBody,
                   fetchCalls, sawDone>>
    /\ UNCHANGED <<clientGone, readsAfterClose, writesAfterClose>>
    /\ UNCHANGED <<searchVars, sinkVars, telVars, facetVars, configVars, clientVars>>

\* reader.read() rejects (the upstream connection breaks): the catch block.
ReadFails ==
    /\ pc = "reading"
    /\ Caught("readfail")
    /\ UNCHANGED <<messages, stream, pos, buffer, lineNo, body, fetchCalls, sawDone>>
    /\ UNCHANGED <<clientGone, readsAfterClose, writesAfterClose>>
    /\ UNCHANGED <<searchVars, sinkVars, telVars, facetVars, configVars, clientVars>>

Next ==
    \/ Validate
    \/ FetchOk
    \/ FetchNotOk
    \/ FetchRejects
    \/ ReadChunk
    \/ ReadDone
    \/ ReadFails

Spec == Init /\ [][Next]_vars

\* ------------------------------------------------------------ /api/search
\* telemetry.trackQuery(req, data), up to its await of indexEvent: nothing
\* when the service is disabled, else the event goes to client.index.
TrackQuery(data) ==
    /\ tracked' = Append(tracked,
                         [error |-> Field(data, "error_occurred", FALSE),
                          result_count |-> Field(data, "result_count", -1),
                          error_message |-> Field(data, "error_message", "none")])
    /\ LET writes == TrackWrites(enabled, QueryEvent(userAgent, data))
       IN /\ sinkWrites' = sinkWrites \o writes
          /\ trackCalls' = Append(trackCalls, [kind |-> "query", enabled |-> enabled,
                                               writes |-> Len(writes)])
    /\ UNCHANGED <<enabled, warnings>>

\* error.message.includes('model_deployment_timeout_exception')
TimeoutMessages == {"model_deployment_timeout_exception",
                    "search failed: model_deployment_timeout_exception"}
UpstreamErrors == TimeoutMessages \cup {"connection refused"}

\* The error response of the catch block.
ErrorReplyAlways500(message) ==
    [status |-> 500, body |-> "searchFailed", message |-> message]
ErrorReply(message) ==
    IF message \in TimeoutMessages
    THEN [status |-> 503, body |-> "retryable", message |-> "modelStarting"]
    ELSE [status |-> 500, body |-> "searchFailed", message |-> message]

\* The response that ends the handler: res.json(..) of the results, or the
\* error response for the message caught.
SearchReply(message) ==
    LET reply == IF message = "none"
                 THEN [status |-> 200, body |-> "results", message |-> "none"]
                 ELSE ErrorReply(message)
    IN /\ sStatus' = reply.status
       /\ sBody' = reply.body
       /\ sMessage' = reply.message
       /\ sSent' = sSent + 1
       /\ sPc' = "done"

\* trackQuery is called and the response follows in the same step.
TrackThenReply(message, data) ==
    /\ TrackQuery(data)
    /\ sError' = message
    /\ IF SearchAwaitsTrack /\ Guard(enabled)
       THEN /\ sPc' = "tracking"
            /\ UNCHANGED <<sStatus, sBody, sMessage, sSent>>
       ELSE SearchReply(message)

\* The catch block of the search handler: trackQuery with error_occurred,
\* then 503 for the model-not-ready error and 500 for every other one.
FailureData(message) == [error_occurred |-> TRUE, error_message |-> message]

SearchCaught(message) ==
    TrackThenReply(message, FailureData(message))

\* JSON.stringify(mainQuery) followed by JSON.parse(..) gives the handler an
\* object of its own: what it substitutes and wraps is not the template.
TemplateAliased(template, replaced) == replaced
TemplateAfterParse(template, replaced) == template

\* if (!query): an absent query and the empty text are both falsy.
QueryNeverMissing(q) == FALSE
QueryMissing(q) == q = <<>>

\* From the start of the handler to its first await: the query check, the
\* substitution into the template, the parse, the filters, and the
\* client.search call.
SearchBuild ==
    /\ sPc = "start"
    /\ IF QueryMissing(query)
       THEN /\ sStatus' = 400
            /\ sBody' = "queryRequired"
            /\ sSent' = sSent + 1
            /\ sPc' = "done"
            /\ UNCHANGED <<searchQueryString, searchQuery, searchCalls, tracked,
                           composedQuery, submittedSize, sError, sMessage, sinkVars,
                           mainQuery>>
       ELSE LET escapedQuery == JsonEscape(query)
                replaced == Replace(mainQuery, escapedQuery)
                parsed == ParseQuery(replaced)
            IN  /\ searchQueryString' = replaced
                /\ searchQuery' = parsed
                /\ IF parsed.ok
                   THEN /\ composedQuery' = Compose(parsed, filters)
                        /\ submittedSize' = ParseInt(SizeOrDefault(size))
                        /\ searchCalls' = searchCalls + 1
                        /\ sPc' = "searching"
                        /\ UNCHANGED <<sStatus, sBody, sMessage, sSent, sError,
                                       tracked, sinkVars>>
                        /\ mainQuery' = TemplateAfterParse(mainQuery, replaced)
                   ELSE /\ SearchCaught("Unexpected token")
                        /\ UNCHANGED <<searchCalls, composedQuery, submittedSize,
                                       mainQuery>>
    /\ UNCHANGED <<query, filters, size, sTotal, warmups, requests>>
    /\ UNCHANGED <<chatVars, telVars, facetVars, clientVars>>

\* warmupElserModel, run once at startup: the template with the fixed text
\* 'insurance' substituted is sent to the backend; the outcome is only logged.
WarmupText == <<"a">>
Warmup ==
    /\ warmups = 0
    /\ warmups' = 1
    /\ UNCHANGED requests
    /\ mainQuery' = TemplateAfterParse(mainQuery, Replace(mainQuery, WarmupText))
    /\ UNCHANGED <<chatVars, searchVars, sinkVars, telVars, facetVars, clientVars>>

\* The totals the backend may report.
Totals == {0, 3}

\* The data of the success-path trackQuery call.
SuccessDataNoCount(total) == [result_count |-> 0]
SuccessData(total) == [result_count |-> total]

\* await client.search(..) resolves: trackQuery, then res.json(..).
SearchOk ==
    /\ sPc = "searching"
    /\ \E total \in Totals :
          /\ sTotal' = total
          /\ TrackThenReply("none", SuccessData(total))
    /\ UNCHANGED <<query, filters, size, searchQueryString, searchQuery,
                   searchCalls, composedQuery, submittedSize>>
    /\ UNCHANGED <<chatVars, telVars, facetVars, configVars, clientVars>>

\* await client.search(..) rejects.
SearchFails ==
    /\ sPc = "searching"
    /\ \E message \in UpstreamErrors : SearchCaught(message)
    /\ UNCHANGED <<query, filters, size, searchQueryString, searchQuery,
                   searchCalls, composedQuery, submittedSize, sTotal>>
    /\ UNCHANGED <<chatVars, telVars, facetVars, configVars, clientVars>>

\* ------------------------------------------------------- the telemetry sink
PendingWrites == {i \in 1..Len(sinkWrites) : sinkWrites[i].state = "pending"}

\* The response of a telemetry endpoint once trackAccess or trackClick has
\* settled: res.json({ success: true }), or the catch block's 500.
EndpointReply(trackOutcome) ==
    IF trackOutcome = "resolved"
    THEN [status |-> 200, body |-> "success"]
    ELSE [status |-> 500, body |-> "failedToTrack"]

\* client.index settles with the given result.  indexEvent logs the guidance
\* for a missing index; whoever awaits the tracking call goes on.
SinkSettles(result) ==
    /\ PendingWrites # {}
    /\ LET i == CHOOSE k \in PendingWrites : \A m \in PendingWrites : k <= m
       IN sinkWrites' = [sinkWrites EXCEPT ![i].state = result]
    /\ warnings' = IF result = "indexMissing" THEN warnings + 1 ELSE warnings
    /\ UNCHANGED <<enabled, trackCalls>>
    /\ IF sPc = "tracking"
       THEN /\ SearchReply(sError)
            /\ UNCHANGED <<query, filters, size, searchQueryString, searchQuery,
                           searchCalls, composedQuery, submittedSize, sTotal,
                           sError, tracked>>
       ELSE UNCHANGED searchVars
    /\ IF tPc = "tracking"
       THEN LET reply == EndpointReply(TrackOutcome(IndexEventOutcome(result)))
            IN /\ tStatus' = reply.status
               /\ tBody' = reply.body
               /\ tPc' = "done"
               /\ UNCHANGED <<userAgent, tKind>>
       ELSE UNCHANGED telVars
    /\ UNCHANGED <<chatVars, facetVars, configVars, clientVars>>

SinkOk == SinkSettles("ok")
SinkIndexMissing == SinkSettles("indexMissing")
SinkFails == SinkSettles("failed")

NextSearch ==
    \/ Warmup
    \/ SearchBuild
    \/ SearchOk
    \/ SearchFails
    \/ SinkOk
    \/ SinkIndexMissing
    \/ SinkFails

SpecSearch == InitSearch /\ [][NextSearch]_vars

\* ------------------------------------------------- what upstream has sent
\* The text of the whole stream, and its complete (newline-terminated) lines.
UpstreamLines == Front(Split(Decode(stream)))
IsToken(j) == LineKind(UpstreamLines[j]) = "write"
Token(j) == LineContent(UpstreamLines[j])
EntriesOf(j) == {i \in 1..Len(body) : body[i].line = j}

\* ------------------------------------------------------------------ claims
\* C1: for a fixed upstream stream the concatenation of the chunks written to
\* the caller is the same for every splitting of the stream into reads: it
\* equals what the relay writes when the whole stream arrives in one read.
C1_ChunkBoundaryIndependence ==
    outcome = "eof" =>
        Flatten(Texts(body)) = Flatten(Texts(ProcessLines(UpstreamLines, 0).writes))

\* C2: a request whose messages is the empty list is answered 400 with no
\* streamed body, and the inference backend is never contacted for it.
C2_EmptyMessagesRejected ==
    messages = "empty" =>
        /\ fetchCalls = 0
        /\ body = <<>>
        /\ pc = "done" => (status = 400 /\ jsonBody = "messagesRequired")

\* C3: when the stream has been relayed to its end, every data line with
\* well-formed JSON and a (non-empty) delta content has produced exactly one
\* chunk, equal to that content, and nothing else was written.
C3_OneChunkPerToken ==
    outcome = "eof" =>
        /\ \A j \in 1..Len(UpstreamLines) :
              IsToken(j) =>
                  /\ Cardinality(EntriesOf(j)) = 1
                  /\ \A i \in EntriesOf(j) : body[i].text = Token(j)
        /\ \A i \in 1..Len(body) :
              body[i].line \in 1..Len(UpstreamLines) /\ IsToken(body[i].line)

\* C4: the chunks are written in the order in which their lines arrived
\* upstream, whatever the splitting into reads.
C4_OrderPreserved ==
    \A i, j \in 1..Len(body) : i < j => body[i].line < body[j].line

C4_Witness ==
    /\ outcome = "eof"
    /\ Len(body) >= 2
    /\ body[1].text # body[2].text

\* C5: a data line that is not valid JSON neither ends nor fails the stream:
\* no exception leaves the line loop, every later valid line has its chunk
\* written, and at end-of-input the response ends as a plain 200 stream.
MalformedBefore(j) ==
    \E m \in 1..(j - 1) : LineKind(UpstreamLines[m]) = "parseError"

C5_MalformedLineSkipped ==
    /\ outcome # "threw"
    /\ outcome = "eof" =>
          /\ status = 200 /\ jsonBody = "none" /\ endCount = 1
          /\ \A j \in 1..Len(UpstreamLines) :
                (IsToken(j) /\ MalformedBefore(j)) => Cardinality(EntriesOf(j)) = 1

C5_Witness ==
    /\ outcome = "eof"
    /\ \E j \in 1..Len(UpstreamLines) :
          IsToken(j) /\ MalformedBefore(j) /\ EntriesOf(j) # {}

\* C6 as stated: the text stream is ended only by the reader's end-of-input
\* (never by [DONE], and by nothing else).
TextStreamEnded == pc = "done" /\ jsonBody = "none"

C6_EndedOnlyAtEndOfInput ==
    /\ TextStreamEnded => (outcome = "eof" /\ pos = Len(stream))
    /\ (sawDone /\ pc = "reading") => endCount = 0

\* C6 as amended: the text stream is ended by the reader's end-of-input or by
\* a failed read after content was written, and by nothing else; [DONE] never
\* ends it: at end-of-input the whole stream has been read, the lines after a
\* [DONE] included, and it ends there with or without a [DONE] seen.
AfterDone(j) ==
    \E m \in 1..(j - 1) : LineKind(UpstreamLines[m]) = "done"

C6_StreamEnd ==
    /\ TextStreamEnded => outcome \in {"eof", "readfail"}
    /\ (TextStreamEnded /\ outcome = "readfail") => body # <<>>
    /\ outcome = "eof" =>
          /\ pos = Len(stream)
          /\ \A j \in 1..Len(UpstreamLines) :
                (IsToken(j) /\ AfterDone(j)) => EntriesOf(j) # {}
    /\ (sawDone /\ pc = "reading") => endCount = 0
    /\ (pc = "reading" /\ pos = Len(stream)) => ENABLED ReadDone

C6_Witness ==
    /\ outcome = "eof"
    /\ sawDone
    /\ \E j \in 1..Len(UpstreamLines) : IsToken(j) /\ AfterDone(j) /\ EntriesOf(j) # {}

\* C9: a non-success status of the inference backend's answer gives the 500
\* JSON failure and not one byte of text stream.
C9_HandshakeFailure ==
    outcome = "handshake" =>
        /\ body = <<>>
        /\ status = 500
        /\ jsonBody = "chatFailed"
        /\ endCount = 1

C9_Witness == outcome = "handshake" /\ fetchCalls = 1 /\ pc = "done"

\* C10: a failure after content was written only ends the stream: no error
\* payload follows the content and the status is left as it was.
C10_MidStreamFailure ==
    (outcome = "readfail" /\ body # <<>>) =>
        /\ jsonBody = "none"
        /\ status = 200
        /\ endCount = 1

C10_Witness == outcome = "readfail" /\ body # <<>> /\ pc = "done"

\* C7: for a query text with a quote, backslash or newline in it (among any
\* other characters) the composed query parses, and its query-text field is
\* exactly the query text.
HasSpecial(q) == \E i \in 1..Len(q) : q[i] \in {"Q", "B", "N"}

C7_RoundTrip ==
    (sPc \in {"searching", "done"} /\ HasSpecial(query)) =>
        (searchQuery.ok /\ searchQuery.text = query)

\* C8: for a non-empty query text the composed query never holds the
\* placeholder {{query}}.
C8_NoPlaceholder ==
    (sPc \in {"searching", "done"} /\ query # <<>> /\ searchQuery.ok) =>
        \A i \in 1..Len(searchQuery.text) : searchQuery.text[i] # "P"

\* C11: a search request gets exactly one response: 400 when the query is
\* missing, 503 marked retryable when the error caught is the model-not-ready
\* error, 500 carrying the error's text for every other error, 200 otherwise;
\* and no response before the handler is done.
C11_OneStatusPerRequest ==
    /\ sSent <= 1
    /\ sPc \in {"start", "searching"} => sSent = 0
    /\ sPc = "done" =>
        /\ sSent = 1
        /\ query = <<>> => (sStatus = 400 /\ sBody = "queryRequired")
        /\ (query # <<>> /\ sError \in TimeoutMessages) =>
               (sStatus = 503 /\ sBody = "retryable")
        /\ (query # <<>> /\ sError \notin TimeoutMessages \cup {"none"}) =>
               (sStatus = 500 /\ sBody = "searchFailed" /\ sMessage = sError)
        /\ (query # <<>> /\ sError = "none") => (sStatus = 200 /\ sBody = "results")

C11_Witness ==
    /\ sPc = "done"
    /\ sError = "search failed: model_deployment_timeout_exception"
    /\ sStatus = 503

\* The query events handed to the telemetry sink so far.
QueryEvents ==
    {i \in 1..Len(sinkWrites) : sinkWrites[i].event.event_type = "query"}

\* C12: once a search whose backend call failed has been answered, exactly
\* one query event has been handed to the sink, with error_occurred true, and
\* no query event with error_occurred false.
C12_OneErrorRecord ==
    (sPc = "done" /\ sError \in UpstreamErrors) =>
        /\ Cardinality(QueryEvents) = 1
        /\ \A i \in QueryEvents : sinkWrites[i].event.error_occurred = TRUE
        /\ Len(tracked) = 1

C12_Witness ==
    /\ sPc = "done"
    /\ sError = "connection refused"
    /\ Len(sinkWrites) = 1
    /\ sinkWrites[1].state = "failed"

\* ------------------------------------------------- the telemetry endpoints
\* POST /api/telemetry/access or /click arrives.
InitTelemetry ==
    /\ ChatIdle
    /\ ConfigLoaded
    /\ ClientIdle
    /\ SearchIdle
    /\ SinkIdle
    /\ FacetIdle
    /\ userAgent \in UserAgents
    /\ tKind \in {"access", "click"}
    /\ tPc = "start"
    /\ tStatus = 0
    /\ tBody = "none"

\* The handler up to its await: trackAccess or trackClick builds the event and
\* awaits indexEvent; with the service disabled it returns at once and the
\* handler answers.
TelemetryRequest ==
    /\ tPc = "start"
    /\ LET writes == TrackWrites(enabled, EndpointEvent(tKind, userAgent))
       IN /\ sinkWrites' = sinkWrites \o writes
          /\ trackCalls' = Append(trackCalls, [kind |-> tKind, enabled |-> enabled,
                                               writes |-> Len(writes)])
          /\ IF writes # <<>>
             THEN /\ tPc' = "tracking"
                  /\ UNCHANGED <<tStatus, tBody>>
             ELSE /\ tStatus' = EndpointReply("resolved").status
                  /\ tBody' = EndpointReply("resolved").body
                  /\ tPc' = "done"
    /\ UNCHANGED <<enabled, warnings, userAgent, tKind>>
    /\ UNCHANGED <<chatVars, searchVars, facetVars, configVars, clientVars>>

NextTelemetry ==
    \/ TelemetryRequest
    \/ SinkOk
    \/ SinkIndexMissing
    \/ SinkFails

SpecTelemetry == InitTelemetry /\ [][NextTelemetry]_vars

\* C13: whichever way the sink write of a telemetry endpoint ends (stored,
\* index missing, other failure), the endpoint has answered 200 with
\* { success: true }.
C13_AlwaysSuccess ==
    /\ tPc = "done" => (tStatus = 200 /\ tBody = "success")
    /\ \A i \in 1..Len(sinkWrites) :
          sinkWrites[i].state \in {"ok", "indexMissing", "failed"} =>
              (tPc = "done" /\ tStatus = 200 /\ tBody = "success")

C13_Witness ==
    /\ tPc = "done"
    /\ tKind = "click"
    /\ Len(sinkWrites) = 1
    /\ sinkWrites[1].state = "failed"
    /\ tBody = "success"

\* The response the search handler owes for what the backend did, the sink
\* left aside.
ExpectedSearchResponse ==
    IF sError = "none" THEN [status |-> 200, body |-> "results", message |-> "none"]
    ELSE IF sError \in TimeoutMessages
    THEN [status |-> 503, body |-> "retryable", message |-> "modelStarting"]
    ELSE [status |-> 500, body |-> "searchFailed", message |-> sError]

\* C14: once the backend call of a search has ended, the response has been
\* sent, and its status and body are the ones owed for the backend's outcome
\* whether the telemetry write is still pending, was stored, failed for a
\* missing index or failed otherwise.
C14_TelemetryNeverAffectsSearch ==
    \A i \in QueryEvents :
        sinkWrites[i].state \in {"pending", "ok", "indexMissing", "failed"} =>
            /\ sPc = "done"
            /\ sSent = 1
            /\ sStatus = ExpectedSearchResponse.status
            /\ sBody = ExpectedSearchResponse.body
            /\ sMessage = ExpectedSearchResponse.message

C14_Witness ==
    /\ Len(sinkWrites) = 1
    /\ sinkWrites[1].state = "pending"
    /\ sStatus = 200
    /\ sSent = 1

\* C15: no handler waits for the sink write: while the write a handler has
\* started is pending, that handler's response has already been sent.
C15_NoCallerWaits ==
    PendingWrites # {} =>
        /\ sPc # "idle" => sSent = 1
        /\ tPc # "idle" => (tPc = "done" /\ tStatus # 0)

\* The filter fields the request lists at least one value for.
SuppliedFields ==
    {k \in FilterField :
        filters.kind = "object" /\ filters[k].given /\ filters[k].values # <<>>}

\* The search body has been composed and handed to the backend.
Composed == searchCalls = 1 /\ composedQuery.shape # "none"

\* C16: when at least one filter field lists a value, the composed query has
\* one filter clause per such field and no other, each clause lists exactly
\* the values supplied for its field, and the template's semantic match is
\* the must part.
C16_FilterClauses ==
    (Composed /\ SuppliedFields # {}) =>
        /\ composedQuery.shape = "bool"
        /\ Len(composedQuery.filter) = Cardinality(SuppliedFields)
        /\ \A k \in SuppliedFields :
              \E i \in 1..Len(composedQuery.filter) :
                  /\ composedQuery.filter[i].field = k
                  /\ composedQuery.filter[i].terms = filters[k].values
        /\ \A i \in 1..Len(composedQuery.filter) :
              composedQuery.filter[i].field \in SuppliedFields
        /\ composedQuery.semantic = searchQuery.text

C16_Witness ==
    /\ Composed
    /\ SuppliedFields = {"author", "creator_tool"}
    /\ Len(filters.creator_tool.values) = 2
    /\ Len(composedQuery.filter) = 2

\* C17: when no filter field lists a value (filters absent, an empty object,
\* or only empty lists), the composed query is the parsed template as the
\* substitution left it: no bool wrapper and no filter part.
C17_EmptyFiltersLeaveTemplate ==
    (Composed /\ SuppliedFields = {}) =>
        /\ composedQuery.shape = "template"
        /\ composedQuery.filter = <<>>
        /\ composedQuery.semantic = searchQuery.text

C17_Witness ==
    /\ Composed
    /\ filters.kind = "object"
    /\ \A k \in FilterField : filters[k].given /\ filters[k].values = <<>>
    /\ composedQuery.shape = "template"

\* C18: the size handed to the backend is a positive integer: 10 when the
\* request gives none, and a positive integer for every size it does give.
C18_PositiveSize ==
    searchCalls = 1 =>
        /\ submittedSize.kind = "int"
        /\ submittedSize.value > 0
        /\ size.kind = "absent" => submittedSize.value = DefaultSize

\* ------------------------------------------------------------ /api/facets
\* A creator-tool key is a run of words and blanks.
ToolKeys ==
    {<<"Adobe", " ", "Acrobat", " ", "Pro">>,
     <<"Adobe", " ", "Acrobat">>,
     <<"Adobe", " ", "InDesign", " ", "CC">>,
     <<"Adobe">>,
     <<"Acrobat", " ", "Distiller", " ", "9">>,
     <<"PDF", " ", "Acrobat", " ", "Pro">>,
     <<"Adobe", " ", " ", "Acrobat">>,
     <<"Microsoft", " ", "Word", " ", "2010">>}

\* The buckets of a terms aggregation: distinct keys, counts of at least one,
\* largest count first.
BucketFits(b, e) ==
    /\ \A i \in 1..Len(b) : b[i].key # e.key
    /\ b # <<>> => e.doc_count <= b[Len(b)].doc_count

RECURSIVE BucketsUpTo(_)
BucketsUpTo(n) ==
    IF n = 0 THEN {<<>>}
    ELSE LET shorter == BucketsUpTo(n - 1)
             entries == [key : ToolKeys, doc_count : 1..MaxCount]
         IN shorter \cup
            UNION {{Append(b, e) : e \in {x \in entries : BucketFits(b, x)}} :
                      b \in {x \in shorter : Len(x) = n - 1}}

\* displayValue.split(' ')
RECURSIVE SplitWords(_)
SplitWords(text) ==
    IF \A i \in 1..Len(text) : text[i] # " " THEN <<text>>
    ELSE LET i == CHOOSE k \in 1..Len(text) :
                      text[k] = " " /\ \A m \in 1..(k - 1) : text[m] # " "
         IN <<SubSeq(text, 1, i - 1)>> \o SplitWords(SubSeq(text, i + 1, Len(text)))

\* words.slice(0, 2).join(' ')
JoinTwo(words) == words[1] \o <<" ">> \o words[2]

\* displayValue.startsWith('Adobe') || displayValue.includes('Acrobat')
IsAdobeTool(key) ==
    \/ key # <<>> /\ key[1] = "Adobe"
    \/ \E i \in 1..Len(key) : key[i] = "Acrobat"

\* The display value of one bucket key.
DisplayValue(key) ==
    IF IsAdobeTool(key)
    THEN LET words == SplitWords(key)
         IN IF Len(words) >= 2 THEN JoinTwo(words) ELSE key
    ELSE key

\* creatorToolMap.get(displayValue) + bucket.doc_count
AddCountOverwrite(old, n) == n
AddCount(old, n) == old + n

\* One turn of the forEach: the Map keeps its entries in insertion order.
MapAdd(map, value, n) ==
    IF \E i \in 1..Len(map) : map[i].value = value
    THEN [i \in 1..Len(map) |->
             IF map[i].value = value
             THEN [value |-> value, count |-> AddCount(map[i].count, n)]
             ELSE map[i]]
    ELSE Append(map, [value |-> value, count |-> n])

RECURSIVE CreatorToolMap(_, _)
CreatorToolMap(b, map) ==
    IF b = <<>> THEN map
    ELSE CreatorToolMap(Tail(b), MapAdd(map, DisplayValue(Head(b).key), Head(b).doc_count))

\* .sort((a, b) => b.count - a.count): stable, largest count first.
RECURSIVE InsertByCount(_, _)
InsertByCount(sorted, e) ==
    IF sorted = <<>> THEN <<e>>
    ELSE IF Head(sorted).count >= e.count
         THEN <<Head(sorted)>> \o InsertByCount(Tail(sorted), e)
         ELSE <<e>> \o sorted

RECURSIVE SortByCount(_)
SortByCount(entries) ==
    IF entries = <<>> THEN <<>>
    ELSE InsertByCount(SortByCount(Front(entries)), Last(entries))

\* A facets request arrives; the backend will answer with these buckets.
InitFacets ==
    /\ ChatIdle
    /\ ConfigLoaded
    /\ ClientIdle
    /\ SearchIdle
    /\ SinkIdle
    /\ TelIdle
    /\ buckets \in BucketsUpTo(MaxBuckets)
    /\ fPc = "start"
    /\ fStatus = 0
    /\ fFacets = <<>>

\* The handler up to await client.search(..).
FacetsRequest ==
    /\ fPc = "start"
    /\ fPc' = "searching"
    /\ UNCHANGED <<buckets, fStatus, fFacets>>
    /\ UNCHANGED <<chatVars, searchVars, sinkVars, telVars, configVars, clientVars>>

\* The aggregation arrives: collapse, sum, sort, res.json(facets).
FacetsOk ==
    /\ fPc = "searching"
    /\ fFacets' = SortByCount(CreatorToolMap(buckets, <<>>))
    /\ fStatus' = 200
    /\ fPc' = "done"
    /\ UNCHANGED buckets
    /\ UNCHANGED <<chatVars, searchVars, sinkVars, telVars, configVars, clientVars>>

\* client.search rejects: the catch block answers 500.
FacetsFails ==
    /\ fPc = "searching"
    /\ fStatus' = 500
    /\ fPc' = "done"
    /\ UNCHANGED <<buckets, fFacets>>
    /\ UNCHANGED <<chatVars, searchVars, sinkVars, telVars, configVars, clientVars>>

NextFacets ==
    \/ FacetsRequest
    \/ FacetsOk
    \/ FacetsFails

SpecFacets == InitFacets /\ [][NextFacets]_vars

\* A key is collapsed when its first word is Adobe or one of its words is
\* Acrobat; its first two words are the text before its second blank.
Collapses(key) == key[1] = "Adobe" \/ "Acrobat" \in {key[i] : i \in 1..Len(key)}
Blanks(key) == {i \in 1..Len(key) : key[i] = " "}
FirstTwoWords(key) ==
    IF Cardinality(Blanks(key)) < 2 THEN key
    ELSE LET second == CHOOSE i \in Blanks(key) :
                           Cardinality({j \in Blanks(key) : j < i}) = 1
         IN SubSeq(key, 1, second - 1)
Shown(key) == IF Collapses(key) THEN FirstTwoWords(key) ELSE key

RECURSIVE SumCounts(_)
SumCounts(idx) ==
    IF idx = {} THEN 0
    ELSE LET i == CHOOSE k \in idx : TRUE
         IN buckets[i].doc_count + SumCounts(idx \ {i})

DeviceNames == <<"tablet", "mobile">>
BrowserNames == <<"Edge", "Chrome", "Safari", "Firefox", "IE", "Opera">>
OsNames == <<"Windows", "macOS", "Linux", "Android", "iOS">>

Matches(attr, i, ua) ==
    CASE attr = "device" /\ i = 1 -> TabletPattern(ua)
      [] attr = "device" /\ i = 2 -> MobilePattern(ua)
      [] attr = "browser" /\ i = 1 -> Includes(ua, "Edg/")
      [] attr = "browser" /\ i = 2 -> Includes(ua, "Chrome/")
      [] attr = "browser" /\ i = 3 -> Includes(ua, "Safari/") /\ ~Includes(ua, "chrome")
      [] attr = "browser" /\ i = 4 -> Includes(ua, "Firefox/")
      [] attr = "browser" /\ i = 5 -> Includes(ua, "Trident/")
      [] attr = "browser" /\ i = 6 -> Includes(ua, "OPR/")
      [] attr = "os" /\ i = 1 -> Includes(ua, "Windows")
      [] attr = "os" /\ i = 2 -> Includes(ua, "Mac OS")
      [] attr = "os" /\ i = 3 -> Includes(ua, "Linux")
      [] attr = "os" /\ i = 4 -> Includes(ua, "Android")
      [] attr = "os" /\ i = 5 -> Includes(ua, "iPhone") \/ Includes(ua, "iPad")
      [] OTHER -> FALSE

\* The value of the first check that matches, or the fallback when none does.
FirstMatch(attr, names, ua, fallback) ==
    LET hits == {i \in 1..Len(names) : Matches(attr, i, ua)}
    IN IF hits = {} THEN fallback
       ELSE names[CHOOSE i \in hits : \A j \in hits : i <= j]

\* The agent text of the request: a missing header has no text to match.
AgentText == IF userAgent = NoUserAgent THEN <<>> ELSE userAgent

\* The envelopes of the events handed to the sink.
Envelopes == {sinkWrites[i].event.common : i \in 1..Len(sinkWrites)}

\* C20 as stated: each attribute of the envelope is the value of the first
\* matching check, and unknown when the agent string (a missing one
\* included) matches no check of that attribute.
C20_UnknownWhenUnmatched ==
    \A e \in Envelopes :
        /\ e.device_type = FirstMatch("device", DeviceNames, AgentText, "unknown")
        /\ e.browser = FirstMatch("browser", BrowserNames, AgentText, "unknown")
        /\ e.os = FirstMatch("os", OsNames, AgentText, "unknown")

\* C20, amended: each attribute of the envelope is the value of the first
\* matching check; with no match the browser and the OS are unknown and the
\* device type is desktop, for a missing agent string too.
C20_FirstMatchWins ==
    \A e \in Envelopes :
        /\ e.device_type = FirstMatch("device", DeviceNames, AgentText, "desktop")
        /\ e.browser = FirstMatch("browser", BrowserNames, AgentText, "unknown")
        /\ e.os = FirstMatch("os", OsNames, AgentText, "unknown")

C20_Witness ==
    /\ userAgent = <<"Chrome/", "Edg/">>
    /\ \E e \in Envelopes :
          e.browser = "Edge" /\ e.device_type = "desktop" /\ e.os = "unknown"

\* ------------------------------------------- the caller of the chat goes away
\* The caller closes its connection while the handler awaits fetch or a read.
\* The handler registers no close listener and res.write on a closed
\* connection does not throw, so nothing in the handler runs.
ClientDisconnects ==
    /\ pc \in {"fetching", "reading"}
    /\ ~clientGone
    /\ clientGone' = TRUE
    /\ UNCHANGED <<messages, stream, pc, pos, buffer, lineNo, body, headersSent,
                   status, jsonBody, endCount, fetchCalls, sawDone, outcome,
                   readsAfterClose, writesAfterClose>>
    /\ UNCHANGED <<searchVars, sinkVars, telVars, facetVars, configVars, clientVars>>

NextDisconnect ==
    \/ Validate
    \/ FetchOk
    \/ FetchNotOk
    \/ FetchRejects
    \/ ReadChunk
    \/ ReadDone
    \/ ReadFails
    \/ ClientDisconnects

SpecDisconnect == Init /\ [][NextDisconnect]_vars

\* C21: once the caller has gone, the relay makes no further res.write and
\* issues no further reader.read() on the upstream stream.
C21_StopsOnDisconnect ==
    clientGone => (readsAfterClose = 0 /\ writesAfterClose = 0)

\* C22: a search request with a query calls trackQuery exactly once, and has
\* done so when its response is sent: after a successful search with the
\* backend's total and no error flag, after a failed one with the error flag
\* and the error's message and no result count; none is made before the
\* backend has answered.
C22_TrackedExactlyOnce ==
    query # <<>> =>
        /\ Len(tracked) <= 1
        /\ sPc = "start" => tracked = <<>>
        /\ sSent = 1 =>
            /\ Len(tracked) = 1
            /\ Len(trackCalls) = 1
            /\ trackCalls[1].kind = "query"
            /\ IF sError = "none"
               THEN tracked[1] = [error |-> FALSE, result_count |-> sTotal,
                                  error_message |-> "none"]
               ELSE tracked[1] = [error |-> TRUE, result_count |-> -1,
                                  error_message |-> sError]

C22_Witness ==
    /\ sSent = 1
    /\ sStatus = 200
    /\ sTotal = 3
    /\ Len(tracked) = 1
    /\ filters.kind = "object"

\* ------------------------------------------------- the TelemetryService
\* The service on its own: track calls, setEnabled calls and the sink's
\* answers, in any order.
InitService ==
    /\ ChatIdle
    /\ SearchIdle
    /\ SinkIdle
    /\ TelIdle
    /\ FacetIdle
    /\ ConfigLoaded
    /\ ClientIdle

\* The data a caller passes to trackQuery.
QueryData == {SuccessData(3), FailureData("connection refused")}

\* trackAccess, trackQuery or trackClick is called: nothing when disabled,
\* else the event is built and handed to indexEvent.
ServiceTrack ==
    /\ Len(trackCalls) < MaxEvents
    /\ \E kind \in {"access", "query", "click"} :
       \E data \in QueryData :
          LET event == IF kind = "query" THEN QueryEvent(userAgent, data)
                       ELSE EndpointEvent(kind, userAgent)
              writes == TrackWrites(enabled, event)
          IN /\ sinkWrites' = sinkWrites \o writes
             /\ trackCalls' = Append(trackCalls, [kind |-> kind, enabled |-> enabled,
                                                  writes |-> Len(writes)])
    /\ UNCHANGED <<enabled, warnings>>
    /\ UNCHANGED <<chatVars, searchVars, telVars, facetVars, configVars, clientVars>>

\* setEnabled(enabled)
SetEnabled ==
    /\ \E b \in BOOLEAN : enabled' = b
    /\ UNCHANGED <<sinkWrites, warnings, trackCalls>>
    /\ UNCHANGED <<chatVars, searchVars, telVars, facetVars, configVars, clientVars>>

NextService ==
    \/ ServiceTrack
    \/ SetEnabled
    \/ SinkOk
    \/ SinkIndexMissing
    \/ SinkFails

SpecService == InitService /\ [][NextService]_vars

\* The writes that failed because the usage index does not exist.
IndexMissingWrites ==
    {i \in 1..Len(sinkWrites) : sinkWrites[i].state = "indexMissing"}

\* C23: however many events fail for a missing usage index, the guidance is
\* logged once.
C23_WarnedOnce ==
    /\ warnings <= 1
    /\ IndexMissingWrites # {} => warnings = 1

\* C24: every track call makes at most one client.index call, in the step of
\* the call itself, for its own event alone; no write is added later, so a
\* failed write is not tried again.
C24_AtMostOneWrite ==
    LET made == SelectSeq(trackCalls, LAMBDA c : c.writes > 0)
    IN /\ \A i \in 1..Len(trackCalls) : trackCalls[i].writes <= 1
       /\ Len(sinkWrites) = Len(made)
       /\ \A i \in 1..Len(sinkWrites) : sinkWrites[i].event.event_type = made[i].kind

C24_Witness ==
    /\ Len(trackCalls) = 2
    /\ Len(sinkWrites) = 2
    /\ sinkWrites[1].state = "failed"
    /\ sinkWrites[2].state = "ok"
    /\ sinkWrites[1].event.event_type = "query"
    /\ sinkWrites[2].event.event_type = "click"

\* C26: a track call makes a sink write exactly when telemetry was enabled
\* as the call started, whatever setEnabled calls came before.
C26_WritesIffEnabled ==
    \A i \in 1..Len(trackCalls) :
        (trackCalls[i].writes > 0) <=> trackCalls[i].enabled

C26_Witness ==
    /\ Len(trackCalls) = 2
    /\ ~trackCalls[1].enabled
    /\ trackCalls[1].writes = 0
    /\ trackCalls[2].enabled
    /\ trackCalls[2].writes = 1
    /\ Len(sinkWrites) = 1

\* ------------------------------------------- search requests in a row
\* The server after startup, no request in hand yet.
InitRequests ==
    /\ ChatIdle
    /\ SearchIdle
    /\ SinkIdle
    /\ TelIdle
    /\ FacetIdle
    /\ ConfigLoaded
    /\ ClientIdle

RequestQueries == {<<"a">>, <<"Q", "a">>}
RequestFilters ==
    {NoFilters,
     [NoFilters EXCEPT !.kind = "object",
                       !.author = [given |-> TRUE, values |-> <<"v1">>]],
     [NoFilters EXCEPT !.kind = "object",
                       !.content_type = [given |-> TRUE, values |-> <<>>],
                       !.creator_tool = [given |-> TRUE, values |-> <<"v1">>]]}

\* The next search request arrives once the one before has been answered:
\* the handler starts with locals of its own; the template, the telemetry
\* service and what was handed to the sink stay as they are.
SearchArrives ==
    /\ sPc \in {"idle", "done"}
    /\ requests < MaxRequests
    /\ requests' = requests + 1
    /\ query' \in RequestQueries
    /\ filters' \in RequestFilters
    /\ size' = NoSizeGiven
    /\ sPc' = "start"
    /\ searchQueryString' = <<>>
    /\ searchQuery' = NoQuery
    /\ sStatus' = 0
    /\ sBody' = "none"
    /\ searchCalls' = 0
    /\ tracked' = <<>>
    /\ composedQuery' = NoComposed
    /\ submittedSize' = NoSize
    /\ sError' = "none"
    /\ sTotal' = -1
    /\ sSent' = 0
    /\ sMessage' = "none"
    /\ UNCHANGED <<mainQuery, warmups>>
    /\ UNCHANGED <<chatVars, sinkVars, telVars, facetVars, clientVars>>

NextRequests ==
    \/ SearchArrives
    \/ Warmup
    \/ SearchBuild
    \/ SearchOk
    \/ SearchFails

SpecRequests == InitRequests /\ [][NextRequests]_vars

ReceivedChars ==
    LET got == SubSeq(stream, 1, pos)
    IN Decode(IF pos > 0 /\ got[pos] = "L" THEN SubSeq(got, 1, pos - 1) ELSE got)

\* C27: after every processed read the buffer holds no newline and is exactly
\* the upstream characters received since the last newline; what is left in
\* it at end-of-input is never gone through as a line.
C27_BufferInvariant ==
    /\ \A i \in 1..Len(buffer) : buffer[i] # "N"
    /\ buffer = Last(Split(ReceivedChars))
    /\ \A i \in 1..Len(body) : body[i].line <= Len(UpstreamLines)

\* The ways a chat response is finished.
FinishedBy400 == status = 400 /\ jsonBody = "messagesRequired"
FinishedBy500 == status = 500 /\ jsonBody = "chatFailed"
FinishedByEnd == status = 200 /\ jsonBody = "none"

\* C28: a read that fails after the handshake and before any content was
\* written is answered with the 500 JSON error; and every response is
\* finished exactly once, not before the handler is done, by exactly one of
\* the 400 body, the 500 body and the end of the text stream.
C28_FinishedExactlyOnce ==
    /\ (outcome = "readfail" /\ body = <<>>) => FinishedBy500
    /\ pc # "done" => endCount = 0
    /\ pc = "done" =>
        /\ endCount = 1
        /\ Cardinality({k \in {"400", "500", "end"} :
                           \/ k = "400" /\ FinishedBy400
                           \/ k = "500" /\ FinishedBy500
                           \/ k = "end" /\ FinishedByEnd}) = 1

C28_Witness ==
    /\ outcome = "readfail"
    /\ pos > 0
    /\ lineNo > 0
    /\ body = <<>>
    /\ FinishedBy500
    /\ endCount = 1

\* C29: a search request with a missing or empty query is answered 400, and
\* for it no query is composed, the backend is not called, trackQuery is not
\* called and nothing is handed to the telemetry sink.
C29_RejectedWithoutSideEffects ==
    (query = <<>> /\ sPc # "start") =>
        /\ sPc = "done"
        /\ sStatus = 400
        /\ searchCalls = 0
        /\ composedQuery = NoComposed
        /\ tracked = <<>>
        /\ trackCalls = <<>>
        /\ sinkWrites = <<>>

C29_Witness ==
    /\ query = <<>>
    /\ sPc = "done"
    /\ sStatus = 400
    /\ sSent = 1
    /\ SuppliedFields # {}
    /\ warmups = 1

\* ------------------------------------------------------ the browser client
InitClient ==
    /\ ChatIdle
    /\ SearchIdle
    /\ SinkIdle
    /\ TelIdle
    /\ FacetIdle
    /\ ConfigLoaded
    /\ ClientIdle

\* performSearch() with a query in the input (Enter key, facet toggle, sample
\* question): the answer section is hidden and emptied and /api/search is
\* fetched. Nothing is done about a search or an answer stream still under
\* way.
PerformSearch ==
    /\ cIssued < MaxSearches
    /\ cIssued' = cIssued + 1
    /\ cPending' = cPending \cup {cIssued + 1}
    /\ cAnswer' = NoAnswer
    /\ UNCHANGED <<cResults, cStreams>>
    /\ UNCHANGED <<chatVars, searchVars, sinkVars, telVars, facetVars, configVars>>

\* The /api/search response of one search arrives: its results are put into
\* the results container and generateAnswer starts the answer stream; with no
\* results, or with an error response, only the message is shown.
SearchResponds ==
    \E id \in cPending :
    \E kind \in {"results", "empty", "error"} :
        /\ cPending' = cPending \ {id}
        /\ cResults' = id
        /\ IF kind = "results"
           THEN /\ cStreams' = cStreams \cup {[search |-> id, chunks |-> 0]}
                /\ cAnswer' = [cAnswer EXCEPT !.visible = TRUE]
           ELSE UNCHANGED <<cStreams, cAnswer>>
        /\ UNCHANGED cIssued
        /\ UNCHANGED <<chatVars, searchVars, sinkVars, telVars, facetVars, configVars>>

\* One read of an answer stream: the chunk is added to the stream's own text
\* and answerContent.innerHTML is set to that text.
AnswerChunk ==
    \E st \in cStreams :
        /\ st.chunks < MaxChunks
        /\ cStreams' = (cStreams \ {st}) \cup {[st EXCEPT !.chunks = st.chunks + 1]}
        /\ cAnswer' = [cAnswer EXCEPT !.search = st.search, !.chunks = st.chunks + 1]
        /\ UNCHANGED <<cIssued, cPending, cResults>>
        /\ UNCHANGED <<chatVars, searchVars, sinkVars, telVars, facetVars, configVars>>

\* An answer stream reports done: its whole text, or the fallback message,
\* is put into answerContent.
AnswerDone ==
    \E st \in cStreams :
        /\ cStreams' = cStreams \ {st}
        /\ cAnswer' = [cAnswer EXCEPT !.search = st.search, !.chunks = st.chunks]
        /\ UNCHANGED <<cIssued, cPending, cResults>>
        /\ UNCHANGED <<chatVars, searchVars, sinkVars, telVars, facetVars, configVars>>

\* The chat-completion fetch or a read of it fails: the catch only logs.
AnswerFails ==
    \E st \in cStreams :
        /\ cStreams' = cStreams \ {st}
        /\ UNCHANGED <<cIssued, cPending, cResults, cAnswer>>
        /\ UNCHANGED <<chatVars, searchVars, sinkVars, telVars, facetVars, configVars>>

NextClient ==
    \/ PerformSearch
    \/ SearchResponds
    \/ AnswerChunk
    \/ AnswerDone
    \/ AnswerFails

SpecClient == InitClient /\ [][NextClient]_vars

\* C30: once every search response and every answer stream has settled, the
\* results shown are those of the search issued last, and the answer text in
\* the answer section, if any, is that search's.
C30_LatestSearchShown ==
    (cIssued > 0 /\ cPending = {} /\ cStreams = {}) =>
        /\ cResults = cIssued
        /\ cAnswer.search \in {0, cIssued}

====
